---- MODULE Spec2Model ----
(***************************************************************************)
(* r3: bulk regex rename of the entries below a root directory.           *)
(* A model of src/r3.cpp, lines 1-224 (the version with --search-mode):    *)
(* readOptions, the validation of the options, the traversal loop over    *)
(* the work queue, the report, the confirmation prompt and the rename     *)
(* loop, over a small file system with permissions.                       *)
(*                                                                         *)
(* Representation.  A name is a sequence of one-character strings; a path *)
(* is the sequence of its components as std::filesystem::path iterates    *)
(* them: "r/" is << <<"r">>, <<>> >> (a trailing slash is an empty last   *)
(* component), "/" is << <<"/">> >>, "r/ab" is << <<"r">>, <<"a","b">> >>.*)
(* The process's working directory is the top directory "/".              *)
(***************************************************************************)
EXTENDS Integers, Sequences, FiniteSets, TLC

VARIABLES
  argv,               \* the command line: its options in order
  pc,                 \* position of main: "start","validate","search","prompt","rename",
                      \* "call" (between fs::exists and fs::rename), "done"
  options,            \* R3Options
  fs,                 \* the file system: node -> [parent, name, kind, perm]
  search,             \* std::deque<fs::path> search
  pathsToRename,      \* std::vector<std::pair<fs::path, fs::path>>
  failedINodeCount,   \* size_t failedINodeCount
  prompt,             \* char prompt
  pathIt,             \* the reverse iterator of the rename loop: its distance from rbegin()
  out,                \* the progress and report lines written to std::cout
  err,                \* what was written to std::cerr
  exitCode,           \* the exit status of the process, "none" while it runs
  fs0,                \* history: the file system at process start
  discovered,         \* history: the paths popped from the work queue, in order
  failedPaths,        \* history: the popped paths whose listing threw
  attempts,           \* history: the rename loop's iterations, in order
  external            \* history: the entries that another process has created

vars == <<argv, pc, options, fs, search, pathsToRename, failedINodeCount,
          prompt, pathIt, out, err, exitCode, fs0, discovered, failedPaths,
          attempts, external>>

(***************************************************************************)
(* Bounds of the model.                                                    *)
(***************************************************************************)
MaxNodes == 3    \* entries below the root search directory
MaxFaults == 1   \* directories whose permissions are not rwx
MaxExternal == 1 \* entries that another process creates during a run

(***************************************************************************)
(* Sequences.                                                              *)
(***************************************************************************)
Last(s) == s[Len(s)]
Front(s) == SubSeq(s, 1, Len(s) - 1)
Range(s) == {s[i] : i \in DOMAIN s}
Reverse(s) == [i \in 1..Len(s) |-> s[Len(s) + 1 - i]]
Orders(S) == {s \in [1..Cardinality(S) -> S] : \A i, j \in DOMAIN s : i # j => s[i] # s[j]}

(***************************************************************************)
(* The file system.                                                        *)
(***************************************************************************)
Top == 0          \* the directory "/", also the working directory
RootDir == 1      \* the directory "/r"
PlainFile == 2    \* the regular file "/f"
FirstEntry == 3   \* the entries below /r are FirstEntry .. FirstEntry + n - 1

Slash == <<"/">>
EmptyName == <<>>
NameOrder == << <<"a">>, <<"b">>, <<"a", "b">>, <<"b", "a">> >>
EntryNames == {NameOrder[i] : i \in DOMAIN NameOrder}
NameIndex(nm) == CHOOSE i \in DOMAIN NameOrder : NameOrder[i] = nm
FullPerm == {"r", "w", "x"}
FaultPerms == {{"r", "x"}, {"r"}, {}}

Children(f, d) == {c \in DOMAIN f : c # Top /\ f[c].parent = d}

RECURSIVE IsBelow(_, _, _)
\* n is a or lies below a
IsBelow(f, n, a) ==
  IF n = a THEN TRUE
  ELSE IF n = Top THEN FALSE
  ELSE IsBelow(f, f[n].parent, a)

RECURSIVE Walk(_, _, _)
\* path resolution from directory cur, as stat(2) does it
Walk(f, cur, p) ==
  IF p = <<>> THEN [err |-> "none", node |-> cur]
  ELSE IF f[cur].kind # "dir" THEN [err |-> "ENOTDIR", node |-> cur]
  ELSE IF Head(p) = EmptyName THEN Walk(f, cur, Tail(p))
  ELSE IF "x" \notin f[cur].perm THEN [err |-> "EACCES", node |-> cur]
  ELSE LET c == {n \in Children(f, cur) : f[n].name = Head(p)}
       IN  IF c = {} THEN [err |-> "ENOENT", node |-> cur]
           ELSE Walk(f, CHOOSE n \in c : TRUE, Tail(p))

Stat(f, p) ==
  IF p = <<>> THEN [err |-> "ENOENT", node |-> Top]
  ELSE IF Head(p) = Slash THEN Walk(f, Top, Tail(p))
  ELSE Walk(f, Top, p)

\* fs::status: a missing entry is a result, any other error is thrown
NotFoundError(e) == e \in {"ENOENT", "ENOTDIR"}

\* mutant: no target is ever found to exist
existsNever(f, p) == [threw |-> FALSE, value |-> FALSE]

\* fs::exists(p)
exists(f, p) ==
  LET st == Stat(f, p)
  IN  IF st.err = "none" THEN [threw |-> FALSE, value |-> TRUE]
      ELSE IF NotFoundError(st.err) THEN [threw |-> FALSE, value |-> FALSE]
      ELSE [threw |-> TRUE, value |-> FALSE]

\* fs::is_directory(p)
is_directory(f, p) ==
  LET st == Stat(f, p)
  IN  IF st.err = "none" THEN [threw |-> FALSE, value |-> f[st.node].kind = "dir"]
      ELSE IF NotFoundError(st.err) THEN [threw |-> FALSE, value |-> FALSE]
      ELSE [threw |-> TRUE, value |-> FALSE]

\* path::filename()
filename(p) == IF p = <<>> \/ p = <<Slash>> THEN EmptyName ELSE Last(p)

\* operator/ of a path and one name
PathAppend(p, nm) ==
  IF nm = EmptyName THEN p
  ELSE IF p # <<>> /\ Last(p) = EmptyName THEN Front(p) \o <<nm>>
  ELSE p \o <<nm>>

\* path::remove_filename()
remove_filename(p) ==
  IF p = <<>> \/ p = <<Slash>> THEN p
  ELSE Front(p) \o <<EmptyName>>

\* operator/= of two paths: an absolute right-hand side replaces the left one
PathJoin(p, q) ==
  IF q = <<>> THEN p
  ELSE IF Head(q) = Slash THEN q
  ELSE IF p # <<>> /\ Last(p) = EmptyName THEN Front(p) \o q
  ELSE p \o q

\* fs::directory_iterator(p): opening the directory needs read permission
directory_iterator(f, p) ==
  LET st == Stat(f, p)
  IN  IF st.err # "none" \/ f[st.node].kind # "dir" \/ "r" \notin f[st.node].perm
      THEN [threw |-> TRUE, children |-> {}]
      ELSE [threw |-> FALSE,
            children |-> {PathAppend(p, f[c].name) : c \in Children(f, st.node)}]

\* a path without its trailing slash
DirOf(p) == IF p # <<>> /\ Last(p) = EmptyName THEN Front(p) ELSE p

\* the entry src of f moved to the name nm in the directory dir, in the place
\* of the entries gone
MoveTo(f, src, dir, nm, gone) ==
  [n \in DOMAIN f \ gone |->
     IF n = src THEN [f[n] EXCEPT !.parent = dir, !.name = nm] ELSE f[n]]

\* fs::rename(from, to): rename(2), which replaces an existing file, or an
\* existing empty directory by a directory
rename(f, from, to) ==
  LET src == Stat(f, from)
      tgt == DirOf(to)
      dst == Stat(f, remove_filename(tgt))
      old == {c \in Children(f, dst.node) : f[c].name = filename(tgt)}
  IN  IF src.err # "none" \/ dst.err # "none" \/ filename(tgt) \in {EmptyName, Slash}
        THEN [threw |-> TRUE, fs |-> f]
      ELSE IF src.node = Top \/ f[dst.node].kind # "dir"
        THEN [threw |-> TRUE, fs |-> f]
      ELSE IF tgt # to /\ f[src.node].kind # "dir"
        THEN [threw |-> TRUE, fs |-> f]              \* ENOTDIR
      ELSE IF "w" \notin f[f[src.node].parent].perm \/ "x" \notin f[f[src.node].parent].perm
              \/ "w" \notin f[dst.node].perm \/ "x" \notin f[dst.node].perm
        THEN [threw |-> TRUE, fs |-> f]              \* EACCES
      ELSE IF IsBelow(f, dst.node, src.node)
        THEN [threw |-> TRUE, fs |-> f]              \* EINVAL
      ELSE IF old = {}
        THEN [threw |-> FALSE, fs |-> MoveTo(f, src.node, dst.node, filename(tgt), {})]
      ELSE IF old = {src.node}
        THEN [threw |-> FALSE, fs |-> f]
      ELSE IF \E t \in old : f[t].kind # f[src.node].kind \/ Children(f, t) # {}
        THEN [threw |-> TRUE, fs |-> f]              \* ENOTDIR, EISDIR, ENOTEMPTY
      ELSE [threw |-> FALSE, fs |-> MoveTo(f, src.node, dst.node, filename(tgt), old)]

(***************************************************************************)
(* The regular expression: a literal pattern, searched in the name.       *)
(***************************************************************************)
\* std::regex(find, ECMAScript): an unbalanced parenthesis is a syntax error
ValidRegex(find) == \A i \in DOMAIN find : find[i] # "("

\* a pattern is a literal, or ^ followed by a literal: ^ alone matches the
\* empty string at the start of every name
Anchored(find) == find # <<>> /\ Head(find) = "^"
Literal(find) == IF Anchored(find) THEN Tail(find) ELSE find

\* the pattern matches s at position i
MatchesAt(s, find, i) ==
  /\ Anchored(find) => i = 1
  /\ i + Len(Literal(find)) - 1 <= Len(s)
  /\ SubSeq(s, i, i + Len(Literal(find)) - 1) = Literal(find)

\* std::regex_search(s, findRegex)
regex_search(s, find) == \E i \in 1..(Len(s) + 1) : MatchesAt(s, find, i)

RECURSIVE ReplaceAll(_, _, _)
\* every match of a literal, left to right
ReplaceAll(s, lit, rep) ==
  IF s = <<>> THEN <<>>
  ELSE IF Len(lit) <= Len(s) /\ SubSeq(s, 1, Len(lit)) = lit
    THEN rep \o ReplaceAll(SubSeq(s, Len(lit) + 1, Len(s)), lit, rep)
  ELSE <<Head(s)>> \o ReplaceAll(Tail(s), lit, rep)

\* std::regex_replace(s, findRegex, replace): an anchored pattern has at most
\* the one match at the start
regex_replace(s, find, rep) ==
  IF Anchored(find)
  THEN IF MatchesAt(s, find, 1)
       THEN rep \o SubSeq(s, Len(Literal(find)) + 1, Len(s))
       ELSE s
  ELSE ReplaceAll(s, find, rep)

(***************************************************************************)
(* Strings and paths: fs::path(string) and path::string().                *)
(***************************************************************************)
FirstSlash(s) ==
  IF \E i \in DOMAIN s : s[i] = "/"
  THEN CHOOSE i \in DOMAIN s : s[i] = "/" /\ \A j \in 1..(i - 1) : s[j] # "/"
  ELSE 0

RECURSIVE Components(_)
Components(s) ==
  IF s = <<>> THEN <<>>
  ELSE LET k == FirstSlash(s)
       IN  IF k = 0 THEN <<s>>
           ELSE IF k = Len(s) THEN <<SubSeq(s, 1, k - 1), EmptyName>>
           ELSE <<SubSeq(s, 1, k - 1)>> \o Components(SubSeq(s, k + 1, Len(s)))

\* fs::path(s)
ParsePath(s) ==
  IF s = <<>> THEN <<>>
  ELSE IF Head(s) = "/" THEN <<Slash>> \o Components(Tail(s))
  ELSE Components(s)

RECURSIVE JoinNames(_)
JoinNames(p) ==
  IF p = <<>> THEN <<>>
  ELSE IF Len(p) = 1 THEN Head(p)
  ELSE Head(p) \o <<"/">> \o JoinNames(Tail(p))

\* path::string()
PathString(p) ==
  IF p # <<>> /\ Head(p) = Slash THEN <<"/">> \o JoinNames(Tail(p))
  ELSE JoinNames(p)

\* path::replace_filename(s): remove_filename(), then operator/= with the
\* path that the string s converts to
replace_filename(p, s) == PathJoin(remove_filename(p), ParsePath(s))

(***************************************************************************)
(* readOptions.                                                            *)
(***************************************************************************)
DefaultOptions ==
  [verbose |-> FALSE, dryRun |-> FALSE, rootSearchDirectory |-> <<>>,
   find |-> <<>>, replace |-> <<>>, searchMode |-> "dfs"]

RequiredOptions == {"dir", "find", "replace"}

\* the long option whose val is the character getopt_long returned
LongName(c) ==
  CASE c = "y" -> "dry-run"
    [] c = "v" -> "verbose"
    [] c = "d" -> "dir"
    [] c = "f" -> "find"
    [] c = "r" -> "replace"
    [] c = "s" -> "search-mode"
    [] c = "h" -> "help"
    [] OTHER -> "none"

Threw(o, what) == [status |-> "throw", options |-> o, what |-> what]

\* case 's' of the switch
SearchModeOf(o, arg) ==
  IF arg = <<"d", "f", "s">> THEN [status |-> "ok", options |-> [o EXCEPT !.searchMode = "dfs"], what |-> ""]
  ELSE IF arg = <<"b", "f", "s">> THEN [status |-> "ok", options |-> [o EXCEPT !.searchMode = "bfs"], what |-> ""]
  ELSE Threw(o, "Invalid search mode specified.")

\* the check after the getopt loop
RequiredCheck(o, needed) ==
  IF needed # {} THEN Threw(o, "Option must be supplied!")
  ELSE [status |-> "ok", options |-> o, what |-> ""]

RECURSIVE GetoptLoop(_, _, _)
\* the while loop over getopt_long, then the check of the required options
GetoptLoop(args, o, needed) ==
  IF args = <<>> THEN RequiredCheck(o, needed)
  ELSE LET a == Head(args)
           left == needed \ {LongName(a.opt)}
       IN  CASE a.opt = "h" -> [status |-> "exit", options |-> o, what |-> ""]
             [] a.opt = "y" -> GetoptLoop(Tail(args), [o EXCEPT !.dryRun = TRUE], left)
             [] a.opt = "v" -> GetoptLoop(Tail(args), [o EXCEPT !.verbose = TRUE], left)
             [] a.opt = "d" -> GetoptLoop(Tail(args), [o EXCEPT !.rootSearchDirectory = ParsePath(a.arg)], left)
             [] a.opt = "f" -> GetoptLoop(Tail(args), [o EXCEPT !.find = a.arg], left)
             [] a.opt = "r" -> GetoptLoop(Tail(args), [o EXCEPT !.replace = a.arg], left)
             [] a.opt = "s" -> LET m == SearchModeOf(o, a.arg)
                               IN  IF m.status = "ok" THEN GetoptLoop(Tail(args), m.options, left)
                                   ELSE m
             [] OTHER -> Threw(o, "Error: invalid option")

readOptions(args) == GetoptLoop(args, DefaultOptions, RequiredOptions)

(***************************************************************************)
(* Output lines: the text, the paths it names and the numbers it prints.  *)
(***************************************************************************)
Line(m, p, q, n, k) == [msg |-> m, path |-> p, to |-> q, n |-> n, k |-> k]
Text(m) == Line(m, <<>>, <<>>, 0, 0)

(***************************************************************************)
(* main.                                                                   *)
(***************************************************************************)
Exit(code) ==
  /\ pc' = "done"
  /\ exitCode' = code

\* R3Options options = readOptions(argc, argv), and the outer catch for what it throws
ReadOptions ==
  /\ pc = "start"
  /\ LET r == readOptions(argv)
     IN  /\ UNCHANGED argv
         /\ CASE r.status = "exit" ->
                   /\ Exit("0")
                   /\ UNCHANGED <<options, err>>
              [] r.status = "throw" ->
                   /\ Exit("1")
                   /\ err' = Append(err, Text(r.what))
                   /\ UNCHANGED options
              [] OTHER ->
                   /\ pc' = "validate"
                   /\ options' = r.options
                   /\ UNCHANGED <<exitCode, err>>
  /\ UNCHANGED <<fs, search, pathsToRename, failedINodeCount, prompt, pathIt, out,
                 fs0, external, discovered, failedPaths, attempts>>

\* the outcomes of dirPath.back() != '/' : on the empty string the read is
\* out of bounds, so the build decides: either answer, or an assertion abort
BackIsNotSlash(dirPath) ==
  IF dirPath = <<>> THEN {"true", "false", "abort"}
  ELSE IF Last(dirPath) # "/" THEN {"true"}
  ELSE {"false"}

\* the root with the trailing slash added
WithTrailingSlash(root) == ParsePath(PathString(root) \o <<"/">>)

\* the checks of the root and of the pattern, then search.push_back(root)
CheckAndStart(root) ==
  LET d == is_directory(fs, root)
  IN  /\ options' = [options EXCEPT !.rootSearchDirectory = root]
      /\ IF d.threw
           THEN /\ Exit("1")
                /\ err' = Append(err, Line("filesystem error", root, <<>>, 0, 0))
                /\ UNCHANGED search
         ELSE IF ~d.value
           THEN /\ Exit("1")
                /\ err' = Append(err, Text("<dir> must be a directory!"))
                /\ UNCHANGED search
         ELSE IF options.find = <<>>
           THEN /\ Exit("1")
                /\ err' = Append(err, Text("<find> must not be empty!"))
                /\ UNCHANGED search
         ELSE IF ~ValidRegex(options.find)
           THEN /\ Exit("1")
                /\ err' = Append(err, Text("regex_error"))
                /\ UNCHANGED search
         ELSE /\ search' = <<root>>
              /\ pc' = "search"
              /\ UNCHANGED <<exitCode, err>>

Validate ==
  /\ pc = "validate"
  /\ \E b \in BackIsNotSlash(PathString(options.rootSearchDirectory)) :
       CASE b = "abort" ->
              /\ Exit("abort")
              /\ UNCHANGED <<options, search, err>>
         [] b = "true" -> CheckAndStart(WithTrailingSlash(options.rootSearchDirectory))
         [] OTHER -> CheckAndStart(options.rootSearchDirectory)
  /\ UNCHANGED <<argv, fs, pathsToRename, failedINodeCount, prompt, pathIt, out,
                 fs0, external, discovered, failedPaths, attempts>>

\* mutant: the path is always taken from the front
PopPathFront(mode, q) == Head(q)

\* the path the loop takes from the work queue
PopPath(mode, q) == IF mode = "bfs" THEN Head(q) ELSE Last(q)

\* mutant: the pop is always at the front
PopRestFront(mode, q) == Tail(q)

\* mutant: the pop is always at the back
PopRestBack(mode, q) == Front(q)

\* the work queue after the pop
PopRest(mode, q) == IF mode = "bfs" THEN Tail(q) ELSE Front(q)

\* mutant: the pattern is searched in every component of the path
PlanWithFullPath(plan, path, find, replace) ==
  IF \E k \in DOMAIN path : regex_search(path[k], find)
  THEN Append(plan, [path |-> path,
                     renamedPath |-> replace_filename(path,
                                        regex_replace(filename(path), find, replace))])
  ELSE plan

\* the plan after the popped path was matched against the pattern
PlanWith(plan, path, find, replace) ==
  IF regex_search(filename(path), find)
  THEN Append(plan, [path |-> path,
                     renamedPath |-> replace_filename(path,
                                        regex_replace(filename(path), find, replace))])
  ELSE plan

\* mutant: the children are put in front of the work queue
PushChildrenFront(q, children) == children \o q

\* search.push_back(child) for the children in the order of the listing
PushChildren(q, children) == q \o children

\* mutant: the catch block does not count the failure
SearchCatchNoCount(path) ==
  /\ err' = IF options.verbose
            THEN Append(err, Line("Could not search", path, <<>>, 0, 0))
            ELSE err
  /\ failedINodeCount' = failedINodeCount
  /\ failedPaths' = Append(failedPaths, path)

\* mutant: the catch block prints nothing, verbose or not
SearchCatchSilent(path) ==
  /\ err' = err
  /\ failedINodeCount' = failedINodeCount + 1
  /\ failedPaths' = Append(failedPaths, path)

\* the catch block of the traversal loop
SearchCatch(path) ==
  /\ err' = IF options.verbose
            THEN Append(err, Line("Could not search", path, <<>>, 0, 0))
            ELSE err
  /\ failedINodeCount' = failedINodeCount + 1
  /\ failedPaths' = Append(failedPaths, path)

\* one iteration of while (!search.empty())
SearchStep ==
  /\ pc = "search"
  /\ search # <<>>
  /\ LET path == PopPath(options.searchMode, search)
         rest == PopRest(options.searchMode, search)
         d == is_directory(fs, path)
         it == directory_iterator(fs, path)
     IN  /\ out' = IF options.verbose
                   THEN Append(out, Line("Searching", <<>>, <<>>, Len(search), Len(pathsToRename)))
                   ELSE out
         /\ discovered' = Append(discovered, path)
         /\ pathsToRename' = PlanWith(pathsToRename, path, options.find, options.replace)
         /\ IF d.threw \/ (d.value /\ it.threw)
              THEN /\ SearchCatch(path)
                   /\ search' = rest
            ELSE IF ~d.value
              THEN /\ search' = rest
                   /\ UNCHANGED <<err, failedINodeCount, failedPaths>>
            ELSE /\ \E order \in Orders(it.children) : search' = PushChildren(rest, order)
                 /\ UNCHANGED <<err, failedINodeCount, failedPaths>>
  /\ UNCHANGED <<argv, pc, options, fs, prompt, pathIt, exitCode, fs0, external, attempts>>

\* the lines the report prints
ReportLines ==
  (IF options.verbose
   THEN [i \in 1..Len(pathsToRename) |->
           Line("pair", Reverse(pathsToRename)[i].path, Reverse(pathsToRename)[i].renamedPath, 0, 0)]
   ELSE <<>>)
  \o (IF failedINodeCount > 0
      THEN <<Line("Failed to search", <<>>, <<>>, failedINodeCount, 0)>>
      ELSE <<>>)
  \o <<Line("Matched", <<>>, <<>>, Len(pathsToRename), 0)>>

\* mutant: the dry-run test is left out
DryRunExitNever(o) == FALSE

\* if (options.dryRun) return 0
DryRunExit(o) == o.dryRun

\* after the traversal: the report, the dry-run exit, the start of the prompt
Report ==
  /\ pc = "search"
  /\ search = <<>>
  /\ out' = out \o ReportLines
  /\ IF DryRunExit(options)
       THEN /\ Exit("0")
            /\ UNCHANGED <<prompt, pathIt>>
     ELSE IF pathsToRename # <<>>
       THEN /\ pc' = "prompt"
            /\ prompt' = "0"
            /\ UNCHANGED <<pathIt, exitCode>>
     ELSE /\ pc' = "rename"
          /\ pathIt' = 0
          /\ UNCHANGED <<prompt, exitCode>>
  /\ UNCHANGED <<argv, options, fs, search, pathsToRename, failedINodeCount, err,
                 fs0, external, discovered, failedPaths, attempts>>

\* mutant: the loop is left on Y only
AnsweredOnlyY(c) == c = "Y"

\* the loop condition prompt != 'Y' && prompt != 'N', negated
Answered(c) == c = "Y" \/ c = "N"

\* mutant: the answer N is not acted on
DeclinedNever(c) == FALSE

\* if (prompt == 'N') return 0
Declined(c) == c = "N"

\* one std::cin >> prompt of the confirmation loop, and the test after the loop;
\* "x" is any other character, or a failed read
PromptRead ==
  /\ pc = "prompt"
  /\ \E c \in {"Y", "N", "x"} :
       /\ prompt' = c
       /\ IF ~Answered(c) THEN UNCHANGED <<pc, pathIt, exitCode>>
          ELSE IF Declined(c) THEN Exit("0") /\ UNCHANGED pathIt
          ELSE pc' = "rename" /\ pathIt' = 0 /\ UNCHANGED exitCode
  /\ UNCHANGED <<argv, options, fs, search, pathsToRename, failedINodeCount, out, err,
                 fs0, external, discovered, failedPaths, attempts>>

Attempt(e, result) == [path |-> e.path, renamedPath |-> e.renamedPath, result |-> result]

\* mutant: the rename loop iterates forwards, in discovery order
DerefForward(plan, it) == plan[it + 1]

\* *pathIt for a reverse iterator it steps away from rbegin()
Deref(plan, it) == plan[Len(plan) - it]

\* one iteration of the rename loop, and the outer catch for what exists throws
RenameStep ==
  /\ pc = "rename"
  /\ pathIt < Len(pathsToRename)
  /\ LET e == Deref(pathsToRename, pathIt)
         x == exists(fs, e.renamedPath)
         r == rename(fs, e.path, e.renamedPath)
     IN  IF x.threw
           THEN /\ Exit("1")
                /\ err' = Append(err, Line("filesystem error", e.renamedPath, <<>>, 0, 0))
                /\ attempts' = Append(attempts, Attempt(e, "threw"))
                /\ UNCHANGED <<fs, pathIt>>
         ELSE IF x.value
           THEN /\ err' = Append(err, Line("Renamed path already exists!", e.renamedPath, <<>>, 0, 0))
                /\ attempts' = Append(attempts, Attempt(e, "exists"))
                /\ pathIt' = pathIt + 1
                /\ UNCHANGED <<fs, pc, exitCode>>
         ELSE IF r.threw
           THEN /\ err' = Append(err, Line("Failed to rename", e.path, e.renamedPath, 0, 0))
                /\ attempts' = Append(attempts, Attempt(e, "failed"))
                /\ pathIt' = pathIt + 1
                /\ UNCHANGED <<fs, pc, exitCode>>
         ELSE /\ fs' = r.fs
              /\ attempts' = Append(attempts, Attempt(e, "renamed"))
              /\ pathIt' = pathIt + 1
              /\ UNCHANGED <<err, pc, exitCode>>
  /\ UNCHANGED <<argv, options, search, pathsToRename, failedINodeCount, prompt, out,
                 fs0, external, discovered, failedPaths>>

\* the rename loop is over: main returns
Finish ==
  /\ pc = "rename"
  /\ pathIt = Len(pathsToRename)
  /\ Exit("0")
  /\ UNCHANGED <<argv, options, fs, search, pathsToRename, failedINodeCount, prompt,
                 pathIt, out, err, fs0, external, discovered, failedPaths, attempts>>

Next ==
  \/ ReadOptions
  \/ Validate
  \/ SearchStep
  \/ Report
  \/ PromptRead
  \/ RenameStep
  \/ Finish

(***************************************************************************)
(* The initial states: a command line and a file system.  The well-formed *)
(* command lines run over every tree of at most MaxNodes entries and      *)
(* faulty directories together (one less with --verbose, which changes    *)
(* the output only); the other command lines run over the trees of at     *)
(* most one entry, and those with an empty match or a slash in the        *)
(* replacement over the trees of less than MaxNodes entries.              *)
(***************************************************************************)
Opt(o, a) == [opt |-> o, arg |-> a]
Maybe(b, s) == IF b THEN s ELSE <<>>

\* the file system with n entries below /r
MkFs(n, par, kind, name, perm) ==
  [i \in 0..(FirstEntry + n - 1) |->
     IF i = Top THEN [parent |-> Top, name |-> Slash, kind |-> "dir", perm |-> FullPerm]
     ELSE IF i = RootDir THEN [parent |-> Top, name |-> <<"r">>, kind |-> "dir", perm |-> perm[i]]
     ELSE IF i = PlainFile THEN [parent |-> Top, name |-> <<"f">>, kind |-> "file", perm |-> FullPerm]
     ELSE [parent |-> par[i], name |-> name[i], kind |-> kind[i], perm |-> perm[i]]]

\* the parents of n entries: each entry lies in /r or in an earlier entry, and
\* the entries are numbered parent by parent
ParentsOf(n) ==
  LET ids == FirstEntry..(FirstEntry + n - 1)
  IN  {q \in [ids -> {RootDir} \cup ids] :
         /\ \A i \in ids : q[i] < i
         /\ \A i, j \in ids : i < j => q[i] <= q[j]}

\* the kinds of the entries: an entry that holds entries is a directory
KindsOf(n, par) ==
  LET ids == FirstEntry..(FirstEntry + n - 1)
  IN  {k \in [ids -> {"file", "dir"}] : \A i \in ids : par[i] # RootDir => k[par[i]] = "dir"}

\* the names of the entries: the names in one directory differ, and the entries
\* of one directory are numbered by name (every tree has exactly one numbering)
NamesOf(n, par) ==
  LET ids == FirstEntry..(FirstEntry + n - 1)
  IN  {nm \in [ids -> EntryNames] :
         \A i, j \in ids : (i < j /\ par[i] = par[j]) => NameIndex(nm[i]) < NameIndex(nm[j])}

\* the permissions: exactly faults directories have less than rwx
PermsOf(n, kind, faults) ==
  LET ids == FirstEntry..(FirstEntry + n - 1)
      dirs == {RootDir} \cup {i \in ids : kind[i] = "dir"}
  IN  UNION {{[i \in {RootDir} \cup ids |-> IF i \in D THEN bad[i] ELSE FullPerm] :
                bad \in [D -> FaultPerms]} :
             D \in {X \in SUBSET dirs : Cardinality(X) = faults}}

\* fs is a tree of n entries of which faults directories have less than rwx
IsTree(n, faults) ==
  \E par \in ParentsOf(n) :
    \E kind \in KindsOf(n, par) :
      \E name \in NamesOf(n, par) :
        \E perm \in PermsOf(n, kind, faults) :
          fs = MkFs(n, par, kind, name, perm)

\* a well-formed command line: --dir r --find a --replace <rep> --search-mode <mode>
PlainArgv(v) ==
  { Maybe(v, <<Opt("v", <<>>)>>) \o Maybe(y, <<Opt("y", <<>>)>>)
      \o <<Opt("d", <<"r">>), Opt("f", <<"a">>), Opt("r", rep), Opt("s", mode)>> :
      y \in BOOLEAN, rep \in {<<>>, <<"b">>},
      mode \in {<<"b", "f", "s">>, <<"d", "f", "s">>} }

\* command lines with options left out, bad values, an unknown option and --help
AnyArgv ==
  { Maybe(h = "first", <<Opt("h", <<>>)>>)
      \o Maybe(y, <<Opt("y", <<>>)>>)
      \o Maybe(d # <<"-">>, <<Opt("d", d)>>)
      \o Maybe(f # <<"-">>, <<Opt("f", f)>>)
      \o Maybe(r # <<"-">>, <<Opt("r", r)>>)
      \o Maybe(m # <<"-">>, <<Opt("s", m)>>)
      \o Maybe(u, <<Opt("?", <<>>)>>)
      \o Maybe(h = "last", <<Opt("h", <<>>)>>) :
      h \in {"none", "first", "last"}, y \in BOOLEAN,
      d \in {<<"-">>, <<"r">>, <<"r", "/">>, <<"f">>, <<>>},
      f \in {<<"-">>, <<"a">>, <<>>, <<"(">>},
      r \in {<<"-">>, <<"b">>},
      m \in {<<"-">>, <<"b", "f", "s">>, <<"x">>},
      u \in BOOLEAN }

\* command lines whose pattern matches the empty string, or whose replacement
\* holds a slash
RichArgv ==
  { <<Opt("d", <<"r">>), Opt("f", fr[1]), Opt("r", fr[2]), Opt("s", mode)>> :
      fr \in { << <<"^">>, <<"b">> >>,
               << <<"^">>, <<"/", "b">> >>,
               << <<"a">>, <<"b", "/", "a">> >> },
      mode \in {<<"b", "f", "s">>, <<"d", "f", "s">>} }

\* main has not started: nothing is read, found, printed or renamed yet
Started ==
  /\ fs0 = fs
  /\ pc = "start"
  /\ options = DefaultOptions
  /\ search = <<>>
  /\ pathsToRename = <<>>
  /\ failedINodeCount = 0
  /\ prompt = "0"
  /\ pathIt = 0
  /\ out = <<>>
  /\ err = <<>>
  /\ exitCode = "none"
  /\ discovered = <<>>
  /\ failedPaths = <<>>
  /\ attempts = <<>>
  /\ external = {}

Init ==
  /\ \/ /\ argv \in PlainArgv(FALSE)
        /\ \E k \in 0..MaxFaults : \E n \in 0..(MaxNodes - k) : IsTree(n, k)
     \/ /\ argv \in PlainArgv(TRUE)
        /\ \E k \in 0..MaxFaults : \E n \in 0..(MaxNodes - k - 1) : IsTree(n, k)
     \/ /\ argv \in AnyArgv
        /\ \E n \in 0..1 : IsTree(n, 0)
     \/ /\ argv \in RichArgv
        /\ \E n \in 0..(MaxNodes - 1) : IsTree(n, 0)
  /\ Started

Spec == Init /\ [][Next]_vars

(***************************************************************************)
(* The run under fairness: main, a sequential program, takes its next     *)
(* step as long as it has one, and the confirmation input delivers Y or N *)
(* at some read.                                                          *)
(***************************************************************************)
\* a step of main other than a read of the confirmation input
MainStep == ReadOptions \/ Validate \/ SearchStep \/ Report \/ RenameStep \/ Finish

\* a read of the confirmation input that delivers Y or N
InputDelivers == PromptRead /\ prompt' \in {"Y", "N"}

\* the well-formed command lines over the trees of less than MaxNodes entries
\* and faulty directories together
InitLive ==
  /\ argv \in PlainArgv(FALSE)
  /\ \E k \in 0..MaxFaults : \E n \in 0..(MaxNodes - 1 - k) : IsTree(n, k)
  /\ Started

SpecLive == InitLive /\ [][Next]_vars /\ WF_vars(MainStep) /\ WF_vars(InputDelivers)

(***************************************************************************)
(* A confirmed run as a function of the search mode: the traversal and the *)
(* rename loop over the tree at start, with the children of a directory    *)
(* listed in the order of their numbers.                                   *)
(***************************************************************************)
RECURSIVE Sorted(_)
\* the numbers of S in increasing order
Sorted(S) ==
  IF S = {} THEN <<>>
  ELSE LET m == CHOOSE x \in S : \A y \in S : x <= y
       IN  <<m>> \o Sorted(S \ {m})

\* the listing of the directory the path p names
Listing(f, p) ==
  LET order == Sorted(Children(f, Stat(f, p).node))
  IN  [i \in DOMAIN order |-> PathAppend(p, f[order[i]].name)]

RECURSIVE Traverse(_, _, _, _)
\* the traversal loop from the work queue q on: the plan and the pop order
Traverse(mode, q, plan, order) ==
  IF q = <<>> THEN [plan |-> plan, order |-> order]
  ELSE LET path == PopPath(mode, q)
           rest == PopRest(mode, q)
           d == is_directory(fs0, path)
           it == directory_iterator(fs0, path)
       IN  Traverse(mode,
                    IF d.threw \/ ~d.value \/ it.threw THEN rest
                    ELSE PushChildren(rest, Listing(fs0, path)),
                    PlanWith(plan, path, options.find, options.replace),
                    Append(order, path))

RECURSIVE Apply(_, _, _, _)
\* the rename loop from the iterator it on: the tree it leaves and the
\* iterations it made
Apply(plan, it, f, done) ==
  IF it >= Len(plan) THEN [fs |-> f, attempts |-> done]
  ELSE LET e == Deref(plan, it)
           x == exists(f, e.renamedPath)
           r == rename(f, e.path, e.renamedPath)
       IN  IF x.threw THEN [fs |-> f, attempts |-> Append(done, Attempt(e, "threw"))]
           ELSE IF x.value THEN Apply(plan, it + 1, f, Append(done, Attempt(e, "exists")))
           ELSE IF r.threw THEN Apply(plan, it + 1, f, Append(done, Attempt(e, "failed")))
           ELSE Apply(plan, it + 1, r.fs, Append(done, Attempt(e, "renamed")))

\* the confirmed run in the given mode
Run(mode) ==
  LET t == Traverse(mode, <<options.rootSearchDirectory>>, <<>>, <<>>)
      a == Apply(t.plan, 0, fs0, <<>>)
  IN  [order |-> t.order, plan |-> t.plan, fs |-> a.fs, attempts |-> a.attempts]

(***************************************************************************)
(* The run beside another process that creates entries.  The rename loop   *)
(* makes two system calls for an entry, fs::exists and fs::rename, and the *)
(* other process may run before, between and after them.                   *)
(***************************************************************************)
\* the first half of an iteration of the rename loop: fs::exists(renamedPath)
ExistsStep ==
  /\ pc = "rename"
  /\ pathIt < Len(pathsToRename)
  /\ LET e == Deref(pathsToRename, pathIt)
         x == exists(fs, e.renamedPath)
     IN  IF x.threw
           THEN /\ Exit("1")
                /\ err' = Append(err, Line("filesystem error", e.renamedPath, <<>>, 0, 0))
                /\ attempts' = Append(attempts, Attempt(e, "threw"))
                /\ UNCHANGED pathIt
         ELSE IF x.value
           THEN /\ err' = Append(err, Line("Renamed path already exists!", e.renamedPath, <<>>, 0, 0))
                /\ attempts' = Append(attempts, Attempt(e, "exists"))
                /\ pathIt' = pathIt + 1
                /\ UNCHANGED <<pc, exitCode>>
         ELSE /\ pc' = "call"
              /\ UNCHANGED <<err, attempts, pathIt, exitCode>>
  /\ UNCHANGED <<argv, options, fs, search, pathsToRename, failedINodeCount, prompt, out,
                 fs0, external, discovered, failedPaths>>

\* the second half: fs::rename(path, renamedPath) and its catch block
RenameCall ==
  /\ pc = "call"
  /\ LET e == Deref(pathsToRename, pathIt)
         r == rename(fs, e.path, e.renamedPath)
     IN  IF r.threw
           THEN /\ err' = Append(err, Line("Failed to rename", e.path, e.renamedPath, 0, 0))
                /\ attempts' = Append(attempts, Attempt(e, "failed"))
                /\ UNCHANGED fs
         ELSE /\ fs' = r.fs
              /\ attempts' = Append(attempts, Attempt(e, "renamed"))
              /\ UNCHANGED err
  /\ pc' = "rename"
  /\ pathIt' = pathIt + 1
  /\ UNCHANGED <<argv, options, search, pathsToRename, failedINodeCount, prompt, out,
                 exitCode, fs0, external, discovered, failedPaths>>

\* a node number that no entry has or had
NewNode == 1 + CHOOSE m \in DOMAIN fs \cup DOMAIN fs0 \cup external :
                 \A n \in DOMAIN fs \cup DOMAIN fs0 \cup external : n <= m

\* the other process creates a file or an empty directory at the target of a
\* plan entry whose rename has not been called yet
ExternalCreate ==
  /\ pc \in {"search", "prompt", "rename", "call"}
  /\ Cardinality(external) < MaxExternal
  /\ \E k \in 1..(Len(pathsToRename) - pathIt) : \E kind \in {"file", "dir"} :
       LET to == DirOf(pathsToRename[k].renamedPath)
           dir == Stat(fs, remove_filename(to))
       IN  /\ dir.err = "none"
           /\ fs[dir.node].kind = "dir"
           /\ filename(to) \notin {EmptyName, Slash}
           /\ \A c \in Children(fs, dir.node) : fs[c].name # filename(to)
           /\ fs' = [n \in DOMAIN fs \cup {NewNode} |->
                       IF n = NewNode
                       THEN [parent |-> dir.node, name |-> filename(to), kind |-> kind,
                             perm |-> FullPerm]
                       ELSE fs[n]]
           /\ external' = external \cup {NewNode}
  /\ UNCHANGED <<argv, pc, options, search, pathsToRename, failedINodeCount, prompt,
                 pathIt, out, err, exitCode, fs0, discovered, failedPaths, attempts>>

NextExt ==
  \/ ReadOptions
  \/ Validate
  \/ SearchStep
  \/ Report
  \/ PromptRead
  \/ ExistsStep
  \/ RenameCall
  \/ Finish
  \/ ExternalCreate

\* the well-formed command lines over the trees of less than MaxNodes entries
InitExt ==
  /\ argv \in PlainArgv(FALSE)
  /\ \E n \in 0..(MaxNodes - 1) : IsTree(n, 0)
  /\ Started

SpecExt == InitExt /\ [][NextExt]_vars

(***************************************************************************)
(* Properties.                                                             *)
(***************************************************************************)
\* path q names an entry below the directory path p
PathBelow(q, p) ==
  /\ Len(DirOf(q)) > Len(DirOf(p))
  /\ SubSeq(DirOf(q), 1, Len(DirOf(p))) = DirOf(p)

PlanPaths == {pathsToRename[k].path : k \in DOMAIN pathsToRename}

\* C1: in both search modes a directory is popped from the work queue before
\* every entry below it, the renames are attempted in reverse discovery order,
\* and so when the rename of a planned directory is attempted the rename of
\* every planned entry below it has been attempted before.
C1_DescendantsRenamedFirst ==
  /\ \A i, j \in DOMAIN discovered :
       PathBelow(discovered[j], discovered[i]) => i < j
  /\ \A i \in DOMAIN attempts :
       attempts[i].path = pathsToRename[Len(pathsToRename) + 1 - i].path
  /\ \A j \in DOMAIN attempts : \A q \in PlanPaths :
       PathBelow(q, attempts[j].path) => \E i \in 1..(j - 1) : attempts[i].path = q

\* C1 witness: a directory and an entry below it were both renamed, the entry first
C1_Witness ==
  \E i, j \in DOMAIN attempts :
    /\ i < j
    /\ PathBelow(attempts[i].path, attempts[j].path)
    /\ attempts[i].result = "renamed"
    /\ attempts[j].result = "renamed"

\* C2: with dry-run set the run never reaches the prompt or the rename loop,
\* attempts no rename, leaves the tree as it was at the start, and ends with
\* status 0 right after the report's "Matched" line.
C2_DryRunMutatesNothing ==
  options.dryRun =>
    /\ pc \notin {"prompt", "rename"}
    /\ prompt = "0"
    /\ attempts = <<>>
    /\ fs = fs0
    /\ (pc = "done" /\ discovered # <<>>) =>
         (exitCode = "0" /\ out # <<>> /\ Last(out).msg = "Matched")

\* C2 witness: a dry run over a tree with matches has ended
C2_Witness ==
  /\ options.dryRun
  /\ pc = "done"
  /\ pathsToRename # <<>>
  /\ exitCode = "0"

\* C3: without dry-run and with a non-empty plan, the rename loop is entered and
\* a rename attempted only after the prompt was answered Y; after the answer N
\* the run has ended with status 0, no rename attempted and the tree unchanged.
C3_ConfirmationGuardsRenames ==
  /\ (pathsToRename # <<>> /\ (pc = "rename" \/ attempts # <<>>)) =>
       (prompt = "Y" /\ ~options.dryRun)
  /\ prompt = "N" =>
       (pc = "done" /\ exitCode = "0" /\ attempts = <<>> /\ fs = fs0)
  /\ (pc = "prompt" \/ prompt \in {"x", "N"}) => (attempts = <<>> /\ fs = fs0)

\* C3 witness: the prompt was answered N over a non-empty plan
C3_Witness ==
  /\ prompt = "N"
  /\ pathsToRename # <<>>
  /\ pc = "done"

Processed(a) == a.result \in {"renamed", "exists", "failed"}

\* C4: when an entry's target exists at its turn the entry is skipped, and
\* every entry of the plan is still processed: once the run has ended after a
\* skip, each plan entry was renamed, skipped or reported as failed.
C4_SkipThenAllProcessed ==
  (pc = "done" /\ \E i \in DOMAIN attempts : attempts[i].result = "exists") =>
    /\ Len(attempts) = Len(pathsToRename)
    /\ \A i \in DOMAIN attempts : Processed(attempts[i])

\* C5: a failure while applying one plan entry stays with that entry: once the
\* rename loop has been entered the run ends with status 0 and with every plan
\* entry attempted and either renamed, skipped or reported as failed.
C5_FailuresStayLocal ==
  (pc = "done" /\ attempts # <<>>) =>
    /\ exitCode = "0"
    /\ Len(attempts) = Len(pathsToRename)
    /\ \A i \in DOMAIN attempts : Processed(attempts[i])

(***************************************************************************)
(* The tree at start, seen from the root of the search.                   *)
(***************************************************************************)
NoDuplicates(q) == \A i, j \in DOMAIN q : i # j => q[i] # q[j]

RECURSIVE Ancestors(_, _)
Ancestors(f, n) == IF n = Top THEN {} ELSE {f[n].parent} \cup Ancestors(f, f[n].parent)

\* the node the search starts at
RootNode == Stat(fs0, options.rootSearchDirectory).node

\* stat of the entry n succeeds: every directory on the way to it is searchable
CanStat(f, n, root) == n = root \/ \A a \in Ancestors(f, n) : "x" \in f[a].perm

\* the entry n is a directory that can be listed
CanList(f, n, root) == f[n].kind = "dir" /\ "r" \in f[n].perm /\ CanStat(f, n, root)

\* popping n counts a failed search
ListFails(f, n, root) == ~CanStat(f, n, root) \/ (f[n].kind = "dir" /\ "r" \notin f[n].perm)

\* the root and the entries below it with only listable directories in between
Reachable(f, root) ==
  {n \in DOMAIN f :
     /\ IsBelow(f, n, root)
     /\ \A a \in Ancestors(f, n) : IsBelow(f, a, root) => CanList(f, a, root)}

RECURSIVE NodePath(_, _, _, _)
\* the path under which the traversal meets the entry n
NodePath(f, n, root, rootPath) ==
  IF n = root THEN rootPath
  ELSE PathAppend(NodePath(f, f[n].parent, root, rootPath), f[n].name)

PathsOf(N) == {NodePath(fs0, n, RootNode, options.rootSearchDirectory) : n \in N}

ExpectedPaths == PathsOf(Reachable(fs0, RootNode))

ExpectedPlan ==
  {[path |-> q,
    renamedPath |-> replace_filename(q, regex_replace(filename(q), options.find, options.replace))] :
     q \in {x \in ExpectedPaths : regex_search(filename(x), options.find)}}

ExpectedFailed == {n \in Reachable(fs0, RootNode) : ListFails(fs0, n, RootNode)}

\* the traversal loop has started / has ended
TraversalStarted == discovered # <<>>
TraversalDone == TraversalStarted /\ (pc \in {"prompt", "rename", "done"} \/ search = <<>>)

\* C6: in both search modes no path is popped twice, only the root and entries
\* reachable from it through listable directories are popped, and when the
\* traversal has ended every one of them has been popped.
C6_DiscoveryComplete ==
  TraversalStarted =>
    /\ NoDuplicates(discovered)
    /\ Range(discovered) \subseteq ExpectedPaths
    /\ NoDuplicates(search)
    /\ Range(search) \cap Range(discovered) = {}
    /\ TraversalDone => Range(discovered) = ExpectedPaths

\* C6 witness: a traversal has ended that met a directory it could not list,
\* beside entries it could, and left entries of the tree undiscovered
C6_Witness ==
  /\ TraversalDone
  /\ failedPaths # <<>>
  /\ Len(discovered) >= 2
  /\ Cardinality(DOMAIN fs0) > Len(discovered) + 2

\* C7: when the traversal has ended, the set of discovered paths, the plan
\* (as a set, and without repeated entries) and the failed-search count are
\* those determined by the tree, the pattern and the replacement alone;
\* the search mode does not occur in them, so bfs and dfs agree on all three.
C7_ModesAgree ==
  TraversalDone =>
    /\ Range(discovered) = ExpectedPaths
    /\ Range(pathsToRename) = ExpectedPlan
    /\ Len(pathsToRename) = Cardinality(ExpectedPlan)
    /\ failedINodeCount = Cardinality(ExpectedFailed)

\* C7 witness: a bfs traversal with a failed search and two planned entries,
\* popped in an order no dfs traversal produces (a deeper entry after a
\* shallower one that was pushed later)
C7_Witness ==
  /\ TraversalDone
  /\ options.searchMode = "bfs"
  /\ failedINodeCount > 0
  /\ Len(pathsToRename) >= 2
  /\ \E i, j \in DOMAIN discovered :
       i < j /\ Len(DirOf(discovered[i])) > 1 /\ Len(DirOf(discovered[j])) > Len(DirOf(discovered[i]))

\* the paths popped whose listing failed
FailedDiscovered ==
  {discovered[i] : i \in {k \in DOMAIN discovered :
      \E n \in ExpectedFailed :
         discovered[k] = NodePath(fs0, n, RootNode, options.rootSearchDirectory)}}

\* C8, in every state: each failed listing is counted exactly once, for the
\* path it happened on
C8_CountedOnce ==
  /\ failedINodeCount = Len(failedPaths)
  /\ NoDuplicates(failedPaths)
  /\ TraversalStarted => Range(failedPaths) = FailedDiscovered

\* C8, in every step: a failed listing adds one to the count, keeps the
\* traversal running and takes nothing but the popped path from the work queue
C8_FailureStep ==
  failedINodeCount' # failedINodeCount =>
    /\ failedINodeCount' = failedINodeCount + 1
    /\ pc' = "search"
    /\ exitCode' = "none"
    /\ discovered' = Append(discovered, Last(failedPaths'))
    /\ Range(search) \subseteq Range(search') \cup {Last(failedPaths')}

\* C8: a listing that fails during the traversal adds exactly one to the
\* failed-search count for that directory, does not end the traversal, and
\* every entry pending on the work queue is discovered all the same.
C8_SoftFailure ==
  /\ [](C8_CountedOnce)
  /\ [][C8_FailureStep]_vars
  /\ [][Range(search) \subseteq Range(search') \cup Range(discovered')]_vars
  /\ [](TraversalDone => search = <<>>)

\* C8 witness: the listing of a directory below the root failed and an entry
\* that was pending then has been discovered after it
C8_Witness ==
  /\ TraversalDone
  /\ \E i, j \in DOMAIN discovered :
       /\ i < j
       /\ discovered[i] \in Range(failedPaths)
       /\ discovered[i] # options.rootSearchDirectory
       /\ is_directory(fs0, discovered[i]).value
       /\ ~PathBelow(discovered[j], discovered[i])

ErrHas(m, p, q) == \E i \in DOMAIN err : err[i].msg = m /\ err[i].path = p /\ err[i].to = q

\* every skipped or failed rename has its message on std::cerr
RenameErrorsReported ==
  \A i \in DOMAIN attempts :
    /\ attempts[i].result = "exists" =>
         ErrHas("Renamed path already exists!", attempts[i].renamedPath, <<>>)
    /\ attempts[i].result = "failed" =>
         ErrHas("Failed to rename", attempts[i].path, attempts[i].renamedPath)

\* C9 as claimed: every recovered error has a message naming its path, with
\* verbose on or off
C9_EveryErrorNamesItsPath ==
  /\ RenameErrorsReported
  /\ \A i \in DOMAIN failedPaths : ErrHas("Could not search", failedPaths[i], <<>>)

\* C9 as amended: a skipped or failed rename always has a message naming its
\* paths; a failed listing has a message naming its path exactly when verbose
\* is on, and with verbose off it is only counted, the count being printed by
\* the report when it is not zero.
C9_ErrorsReported ==
  /\ RenameErrorsReported
  /\ options.verbose =>
       \A i \in DOMAIN failedPaths : ErrHas("Could not search", failedPaths[i], <<>>)
  /\ ~options.verbose =>
       \A i \in DOMAIN err : err[i].msg # "Could not search"
  /\ (TraversalDone /\ pc # "search" /\ failedPaths # <<>>) =>
       \E i \in DOMAIN out : out[i].msg = "Failed to search" /\ out[i].n = Len(failedPaths)

\* C9 witness: with verbose off a listing failed, a rename was skipped or
\* failed, and the run has ended
C9_Witness ==
  /\ ~options.verbose
  /\ pc = "done"
  /\ failedPaths # <<>>
  /\ \E i \in DOMAIN attempts : attempts[i].result \in {"exists", "failed"}

(***************************************************************************)
(* The command line as given.                                              *)
(***************************************************************************)
HasOpt(o) == \E i \in DOMAIN argv : argv[i].opt = o

\* the argument of the last occurrence of the option o
ArgOf(o) == argv[CHOOSE i \in DOMAIN argv :
                   argv[i].opt = o /\ \A j \in DOMAIN argv : argv[j].opt = o => j <= i].arg

MissingRequired == ~HasOpt("d") \/ ~HasOpt("f") \/ ~HasOpt("r")

InvalidModeToken ==
  \E i \in DOMAIN argv :
    argv[i].opt = "s" /\ argv[i].arg \notin {<<"b", "f", "s">>, <<"d", "f", "s">>}

RootNotDirectory ==
  /\ HasOpt("d")
  /\ LET st == Stat(fs0, ParsePath(ArgOf("d")))
     IN  st.err # "none" \/ fs0[st.node].kind # "dir"

EmptyFind == HasOpt("f") /\ ArgOf("f") = <<>>

InvalidPattern == HasOpt("f") /\ ~ValidRegex(ArgOf("f"))

ConfigurationError ==
  MissingRequired \/ InvalidModeToken \/ RootNotDirectory \/ EmptyFind \/ InvalidPattern

\* C10: on a command line with a configuration error (and without --help, which
\* exits with status 0 as soon as it is read) nothing is popped from the work
\* queue, no rename is attempted, and the run ends with status 1.
C10_ConfigurationErrorsAreFatal ==
  (ConfigurationError /\ ~HasOpt("h")) =>
    /\ discovered = <<>>
    /\ attempts = <<>>
    /\ pc = "done" => exitCode = "1"

(***************************************************************************)
(* Names and entries, read from the tree and not from the paths.          *)
(***************************************************************************)
\* the tree with every permission granted: what a path denotes, whether or
\* not the process may look
Unrestricted(f) == [n \in DOMAIN f |-> [f[n] EXCEPT !.perm = FullPerm]]

\* the entry of f that the path p denotes
Denotes(f, p) == Stat(Unrestricted(f), p)

\* the last component of a discovered path: nothing for the root, which ends
\* with a slash, and for every other entry the name it has in its directory
BaseNameOf(p) ==
  IF p = options.rootSearchDirectory THEN EmptyName
  ELSE fs0[Denotes(fs0, p).node].name

SameDirectory(e) ==
  LET o == Denotes(fs0, e.path)
      d == Denotes(fs0, remove_filename(e.renamedPath))
  IN  /\ o.err = "none"
      /\ d.err = "none"
      /\ o.node # Top
      /\ d.node = fs0[o.node].parent
      /\ filename(e.renamedPath) # EmptyName

\* no entry of the tree has changed its directory
NothingMoved == \A n \in DOMAIN fs \cap DOMAIN fs0 : fs[n].parent = fs0[n].parent

\* C12: the target of every plan entry, the root included when it is matched,
\* lies in the directory of the original and differs from it in the base name
\* only, and no rename that was applied has moved an entry to another directory.
C12_TargetInSameDirectory ==
  /\ \A k \in DOMAIN pathsToRename : SameDirectory(pathsToRename[k])
  /\ NothingMoved

\* C13: whatever the pattern and the replacement, no rename that was applied
\* has the root search directory as its original: the root keeps its name and
\* its place.
C13_RootNeverRenamed ==
  /\ \A i \in DOMAIN attempts :
       attempts[i].result = "renamed" => attempts[i].path # options.rootSearchDirectory
  /\ attempts # <<>> => (RootNode \in DOMAIN fs /\ fs[RootNode] = fs0[RootNode])

\* C14: beside a process that creates entries, an entry that this process
\* created at the target of a plan entry, at any moment before the rename call
\* of that entry, is still there afterwards: no rename has replaced it.
C14_ExternalTargetNeverReplaced ==
  \A n \in external : n \in DOMAIN fs

\* the pattern matches the base name of the discovered path p
Matched(p) == regex_search(BaseNameOf(p), options.find)

\* the plan holds the matched entries in the order of their discovery, each
\* once, and the report prints their number
PlanInDiscoveryOrder ==
  /\ NoDuplicates(discovered)
  /\ [k \in DOMAIN pathsToRename |-> pathsToRename[k].path] = SelectSeq(discovered, Matched)
  /\ \A i \in DOMAIN out : out[i].msg = "Matched" => out[i].n = Len(pathsToRename)

\* the attempts made so far are the last entries of the plan, last first
AttemptsInReverse ==
  /\ Len(attempts) <= Len(pathsToRename)
  /\ \A i \in DOMAIN attempts :
       /\ attempts[i].path = pathsToRename[Len(pathsToRename) + 1 - i].path
       /\ attempts[i].renamedPath = pathsToRename[Len(pathsToRename) + 1 - i].renamedPath

\* C15: the plan is the subsequence of the discovery order formed by the
\* matched entries, each discovered entry at most once, the reported count is
\* its length, and the rename attempts of a confirmed run are that list
\* reversed: the whole list, in that order.
C15_AttemptsArePlanReversed ==
  /\ PlanInDiscoveryOrder
  /\ AttemptsInReverse
  /\ (pc = "done" /\ prompt = "Y") => Len(attempts) = Len(pathsToRename)

\* the number of directories above a path
Depth(p) == Len(DirOf(p))

\* the sequence a begins the sequence b
Prefix(a, b) == Len(a) <= Len(b) /\ SubSeq(b, 1, Len(a)) = a

\* bfs: the entries are discovered in non-decreasing depth, and what is
\* pending is not above the entry discovered last
BfsByDepth ==
  (options.searchMode = "bfs" /\ TraversalStarted) =>
    /\ \A i, j \in DOMAIN discovered : i < j => Depth(discovered[i]) <= Depth(discovered[j])
    /\ \A k \in DOMAIN search : Depth(Last(discovered)) <= Depth(search[k])

\* dfs: once an entry outside the subtree of a popped directory has been
\* discovered after it, nothing of the subtree is discovered later or pending
DfsBySubtree ==
  options.searchMode = "dfs" =>
    \A i, j \in DOMAIN discovered :
      (i < j /\ ~PathBelow(discovered[j], discovered[i])) =>
        /\ \A k \in DOMAIN discovered : k > j => ~PathBelow(discovered[k], discovered[i])
        /\ \A k \in DOMAIN search : ~PathBelow(search[k], discovered[i])

\* a pop takes the front of the queue in bfs mode and the back in dfs mode,
\* and what is left stays in front of the children that are pushed
PopStep ==
  discovered' # discovered =>
    /\ options.searchMode = "bfs" =>
         (Last(discovered') = Head(search) /\ Prefix(Tail(search), search'))
    /\ options.searchMode = "dfs" =>
         (Last(discovered') = Last(search) /\ Prefix(Front(search), search'))

\* C16: the work queue is popped at the front in bfs mode and at the back in
\* dfs mode, the children being appended at the back; so bfs discovers the
\* entries in non-decreasing depth, and dfs discovers the whole subtree of a
\* popped directory before any entry that was pending when it was popped.
C16_PopOrder ==
  /\ [][PopStep]_vars
  /\ [](BfsByDepth)
  /\ [](DfsBySubtree)

\* C16 witness: a dfs traversal has popped a directory below the root, then an
\* entry of its subtree, and only then an entry beside the directory
C16_Witness ==
  /\ options.searchMode = "dfs"
  /\ TraversalDone
  /\ \E i, j, k \in DOMAIN discovered :
       /\ i < j /\ j < k
       /\ discovered[i] # options.rootSearchDirectory
       /\ PathBelow(discovered[j], discovered[i])
       /\ ~PathBelow(discovered[k], discovered[i])
       /\ Depth(discovered[k]) = Depth(discovered[i])

\* the path p denotes in the tree f the entry it denoted at the start
StillDenotes(f, p) ==
  /\ Denotes(fs0, p).err = "none"
  /\ Denotes(f, p).err = "none"
  /\ Denotes(f, p).node = Denotes(fs0, p).node

\* C17: in both search modes, the original path of every plan entry whose
\* rename has not been attempted yet exists and denotes the entry that was
\* discovered under it, whatever renames of the run were applied or skipped
\* before; so it does at the moment its own rename is attempted.
C17_OriginalStillDenotesEntry ==
  \A k \in 1..(Len(pathsToRename) - Len(attempts)) :
    StillDenotes(fs, pathsToRename[k].path)

\* C17 witness: two entries had the same target, the rename of the first was
\* applied and the second was skipped, and a third entry is yet to be attempted
C17_Witness ==
  /\ Len(pathsToRename) > Len(attempts)
  /\ \E i, j \in DOMAIN attempts :
       /\ i < j
       /\ attempts[i].result = "renamed"
       /\ attempts[j].result = "exists"
       /\ attempts[i].renamedPath = attempts[j].renamedPath

OtherMode == IF options.searchMode = "bfs" THEN "dfs" ELSE "bfs"

\* a confirmed run has ended that listed every directory in the fixed order
ConfirmedRunEnded ==
  /\ pc = "done"
  /\ prompt = "Y"
  /\ discovered = Run(options.searchMode).order

\* the run as the actions made it is the run as the function gives it
RunIsFunction ==
  ConfirmedRunEnded =>
    /\ pathsToRename = Run(options.searchMode).plan
    /\ attempts = Run(options.searchMode).attempts
    /\ fs = Run(options.searchMode).fs

\* the renames that were applied, and those skipped as conflicts
Applied(att) == {[path |-> att[i].path, renamedPath |-> att[i].renamedPath] :
                   i \in {k \in DOMAIN att : att[k].result = "renamed"}}
Skipped(att) == {[path |-> att[i].path, renamedPath |-> att[i].renamedPath] :
                   i \in {k \in DOMAIN att : att[k].result = "exists"}}

\* the run in the other mode applies and skips the same renames and leaves
\* the same tree
SameAsOtherMode ==
  /\ Applied(attempts) = Applied(Run(OtherMode).attempts)
  /\ Skipped(attempts) = Skipped(Run(OtherMode).attempts)
  /\ fs = Run(OtherMode).fs

ConflictFree ==
  /\ \A i, j \in DOMAIN pathsToRename :
       i # j => pathsToRename[i].renamedPath # pathsToRename[j].renamedPath
  /\ \A i \in DOMAIN pathsToRename :
       /\ exists(fs0, pathsToRename[i].renamedPath) = [threw |-> FALSE, value |-> FALSE]
       /\ SameDirectory(pathsToRename[i])

LeavesWithEmptyQueue == (pc = "search" /\ pc' # "search") => search = <<>>

\* a read that delivers neither Y nor N changes nothing but the character read
JunkChangesNothing ==
  (pc = "prompt" /\ prompt' \notin {"Y", "N"}) =>
    UNCHANGED <<argv, pc, options, fs, search, pathsToRename, failedINodeCount,
                pathIt, out, err, exitCode, fs0, discovered, failedPaths, attempts,
                external>>

\* C19: on every tree the traversal loop comes to its end, with the work queue
\* empty; the run ends when the confirmation input delivers Y or N at some
\* read, the prompt loop being left at that read; a read of anything else
\* repeats the prompt and changes nothing.
C19_Terminates ==
  /\ (pc = "search") ~> (pc # "search")
  /\ [][LeavesWithEmptyQueue]_vars
  /\ <>(pc = "done")
  /\ [](pc = "prompt" => prompt \notin {"Y", "N"})
  /\ [][JunkChangesNothing]_vars

\* C19 witness: the traversal of a tree of two entries has ended, the plan
\* is not empty, and the confirmation input has delivered something other than
\* Y or N: the prompt is repeated
C19_Witness ==
  /\ pc = "prompt"
  /\ prompt = "x"
  /\ search = <<>>
  /\ Len(discovered) >= 3

====
